---- MODULE Spec2Model ----
(***************************************************************************)
(* Model of strader: the confirmation bridge and engine start-up of        *)
(* SentimentTradingApp (src/strader/gui.py) and the live signal evaluator  *)
(* of SentimentTrading (src/strader/strategy.py).                          *)
(*                                                                         *)
(* Spec      : the GUI thread and the engine threads, interleaved at the   *)
(*             level of the statements of gui_safe_prompt and              *)
(*             handle_prompt_response.                                     *)
(* EvalSpec  : the position ledger changing under the strategy and one     *)
(*             call of _calculate_live_signals per cycle.                  *)
(*                                                                         *)
(* Sentiment scores and the entry threshold are in hundredths (0.2 is 20), *)
(* percentage moves and the expected return in hundredths of a percent     *)
(* (5.0 % is 500); x <= -t/2 is written x * 2 <= -t.                       *)
(***************************************************************************)
EXTENDS Integers, Sequences, FiniteSets, Bags, TLC

\* ---------------------------------------------------------------- bounds
\* number of engines the GUI may start (handle_submit -> initialize_engine)
MaxEngines == 2
\* number of confirmation requests the engine threads may issue in all
MaxPrompts == 2

\* number of open positions in the ledger
MaxLedger == 2
MaxJobs == 3

\* ------------------------------------------------------------- constants
\* Python's None for a string-valued slot
None == "None"
\* pending_prompt = None; a prompt is the pair <<engine, request number>>
NoPrompt == <<0, 0>>
\* what the user may have typed into prompt_entry
UserInputs == {"y", "n"}

Engines == 1..MaxEngines
JobIds == 1..MaxJobs

\* SentimentTrading.ID, the magic number of this strategy's positions (the
\* digits EXPERT_ID contributes are left out)
ID == 7950
\* broker symbols and sentiment tickers
Symbols == {"AAA", "BBB"}
TickerNames == {"AAPL", "MSFT"}
\* the symbol mappings (self.tickers, in insertion order) an engine is started with
TickerMaps == { <<<<"AAA", "AAPL">>>>, <<<<"AAA", "AAPL">>, <<"BBB", "MSFT">>>> }
\* sentiment scores the analyser may report
Scores == {-30, -10, 0, 20, 25}
\* entry prices of positions and ask prices of a tick
OpenPrices == {100}
AskPrices == {97, 100}
BidAskPrices == AskPrices \cup {103}
\* the tick kept between two cycles, and the ask of a symbol whose ask is not read
IdleTick == [s \in Symbols |-> 100]
\* values of max_positions an engine is started with
MaxPositionsChoices == {1, 2, 3}

VARIABLES
    trade_engine,            \* self.trade_engine: 0 (None) or the current engine
    pending_prompt,          \* self.pending_prompt
    prompt_response_value,   \* self.prompt_response_value
    prompt_response_ready,   \* self.prompt_response_ready (threading.Event flag)
    engine,                  \* per engine: its thread's position, stop flag, locals
    gui,                     \* GUI thread: position inside handle_prompt_response, user_input,
                             \*   and the prompt its `if self.pending_prompt` saw
    delivered,               \* history: prompt -> value stored by the respond that saw it
    returned,                \* history: prompt -> value gui_safe_prompt returned for it
    tickers,                 \* strategy.tickers: sequence of <<MT5 symbol, ticker>>
    threshold,               \* strategy.threshold
    ext_th,                  \* strategy.ext_th
    max_positions,           \* strategy.max_positions
    max_trades,              \* strategy.max_trades: symbol -> cap
    positions,               \* strategy.positions: the open positions (ledger), a bag:
                             \*   the code filters, counts and takes min/max of them
    cycle,                   \* _calculate_live_signals: "idle" between two calls, else
                             \*   how the call ended ("returned" or the exception)
    sentiments,              \* its local sentiments: sequence of <<ticker, score>>
    signals,                 \* the list it returned
    tick,                    \* symbol -> ask price it was given
    exits,                   \* <<symbol, side>> -> what exit_positions answered
    source,                  \* whether the analyser answered ("ok") or raised ("failed")
    after_finish,            \* whether the call ran after trade_kwargs' finishing_time
    window,                  \* self.root exists (not yet destroyed by on_close)
    threshold_text,          \* the text of the entry self.threshold
    chart_update_job,        \* self._chart_update_job: 0 (None) or the id root.after
                             \*   returned, which may be that of a job that has run
    scheduled,               \* the ids of the jobs root.after holds and has not run
    last_sentiments,         \* self._last_sentiments
    chart,                   \* self.chart_canvas: none yet, drawn with its bars, or
                             \*   a canvas whose widget was destroyed
    publish,                 \* history: the last call of update_charts (n flips at
                             \*   every call), its argument and how it ended
    submit                   \* history: how the last handle_submit ended

bridgeVars == <<pending_prompt, prompt_response_value, prompt_response_ready>>
guiVars == <<trade_engine, pending_prompt, prompt_response_value,
             prompt_response_ready, engine, gui, delivered, returned>>
configVars == <<tickers, threshold, ext_th, max_positions, max_trades>>
cycleVars == <<sentiments, cycle, signals, tick, exits, source, after_finish>>
strategyVars == <<configVars, positions, cycleVars>>
appVars == <<window, threshold_text, chart_update_job, scheduled, last_sentiments, chart,
            publish, submit>>
vars == <<guiVars, appVars, strategyVars>>

\* d with key k bound to v (dict assignment)
Put(d, k, v) == [x \in (DOMAIN d) \cup {k} |-> IF x = k THEN v ELSE d[x]]

\* ------------------------------------------------------------------ Init
\* SentimentTradingApp.__init__
GuiInit ==
    /\ trade_engine = 0
    /\ pending_prompt = NoPrompt
    /\ prompt_response_value = None
    /\ prompt_response_ready = FALSE
    /\ engine = [e \in Engines |-> [pc |-> "unborn", running |-> FALSE, n |-> 0]]
    /\ gui = [pc |-> "idle", user_input |-> None, seen |-> NoPrompt]
    /\ delivered = <<>>
    /\ returned = <<>>
    /\ window = TRUE
    /\ threshold_text = ""
    /\ chart_update_job = 0
    /\ scheduled = {}
    /\ last_sentiments = <<>>
    /\ chart = [state |-> "none", bars |-> <<>>]
    /\ publish = [n |-> 0, arg |-> <<>>, result |-> "skipped"]
    /\ submit = "none"

\* no cycle has run yet
NoCycle ==
    /\ cycle = "idle"
    /\ sentiments = <<>>
    /\ signals = <<>>
    /\ tick = IdleTick
    /\ exits = [k \in Symbols \X {0, 1} |-> FALSE]
    /\ source = "ok"
    /\ after_finish = FALSE

\* the application with no engine started; the strategy fields hold the
\* configuration of the first scenario and do not change
Init ==
    /\ GuiInit
    /\ tickers = <<<<"AAA", "AAPL">>>>
    /\ threshold = 20
    /\ ext_th = 500
    /\ max_positions = 2
    /\ max_trades = [s \in {"AAA"} |-> 2]
    /\ positions = EmptyBag
    /\ NoCycle

\* the engines created so far
Created == {e \in Engines : engine[e].pc # "unborn"}
\* engine threads inside gui_safe_prompt
\* number of confirmation requests issued so far by engines 1..k
RECURSIVE Issued(_)
Issued(k) == IF k = 0 THEN 0 ELSE engine[k].n + Issued(k - 1)

InPrompt == {e \in Engines : engine[e].pc \in {"gsp_value", "gsp_clear", "gsp_wait", "gsp_return"}}
\* engine threads whose run loop is executing: inside a tick (the only part of
\* a tick modelled is its confirmation request), or between ticks and not
\* asked to stop
Executing == InPrompt \cup {e \in Engines : engine[e].pc = "loop" /\ engine[e].running}

\* ------------------------------------------------------- engine start-up
\* Mt5ExecutionEngine.stop() as used by initialize_engine and on_close: asks
\* the run loop to finish; the loop sees the request between two ticks.
EngineStop(eng, e) ==
    IF e = 0 THEN eng ELSE [eng EXCEPT ![e].running = FALSE]

\* initialize_engine, called at the end of every successful handle_submit:
\* stop the previous engine, create the new one, start its thread.
InitializeEngine ==
    /\ gui.pc = "idle"
    /\ \E e \in Engines :
        /\ e = Cardinality(Created) + 1
        /\ engine' = [EngineStop(engine, trade_engine) EXCEPT
                         ![e] = [pc |-> "loop", running |-> TRUE, n |-> 0]]
        /\ trade_engine' = e
    /\ UNCHANGED <<appVars, strategyVars, bridgeVars, gui, delivered, returned>>

\* the run loop of a stopped engine ends at its next tick
EngineExit(e) ==
    /\ engine[e].pc = "loop"
    /\ ~engine[e].running
    /\ engine' = [engine EXCEPT ![e].pc = "exited"]
    /\ UNCHANGED <<appVars, strategyVars, trade_engine, bridgeVars, gui, delivered, returned>>

\* ------------------------------------------------------- gui_safe_prompt
\* the engine calls prompt_callback(prompt); first statement:
\*   self.pending_prompt = prompt
GspSetPending(e) ==
    /\ engine[e].pc = "loop"
    /\ engine[e].running
    /\ Issued(MaxEngines) < MaxPrompts
    /\ engine' = [engine EXCEPT ![e].pc = "gsp_value", ![e].n = @ + 1]
    /\ pending_prompt' = <<e, engine[e].n + 1>>
    /\ UNCHANGED <<appVars, strategyVars, trade_engine, prompt_response_value, prompt_response_ready,
                   gui, delivered, returned>>

\*   self.prompt_response_value = None
GspResetValue(e) ==
    /\ engine[e].pc = "gsp_value"
    /\ prompt_response_value' = None
    /\ engine' = [engine EXCEPT ![e].pc = "gsp_clear"]
    /\ UNCHANGED <<appVars, strategyVars, trade_engine, pending_prompt, prompt_response_ready,
                   gui, delivered, returned>>

\*   self.prompt_response_ready.clear()   (then the prompt is logged)
GspClearReady(e) ==
    /\ engine[e].pc = "gsp_clear"
    /\ prompt_response_ready' = FALSE
    /\ engine' = [engine EXCEPT ![e].pc = "gsp_wait"]
    /\ UNCHANGED <<appVars, strategyVars, trade_engine, pending_prompt, prompt_response_value,
                   gui, delivered, returned>>

\*   self.prompt_response_ready.wait()
GspWait(e) ==
    /\ engine[e].pc = "gsp_wait"
    /\ prompt_response_ready
    /\ engine' = [engine EXCEPT ![e].pc = "gsp_return"]
    /\ UNCHANGED <<appVars, strategyVars, trade_engine, bridgeVars, gui, delivered, returned>>

\*   return self.prompt_response_value
GspReturn(e) ==
    /\ engine[e].pc = "gsp_return"
    /\ returned' = Put(returned, <<e, engine[e].n>>, prompt_response_value)
    /\ engine' = [engine EXCEPT ![e].pc = "loop"]
    /\ UNCHANGED <<appVars, strategyVars, trade_engine, bridgeVars, gui, delivered>>

\* ------------------------------------------------ handle_prompt_response
\*   user_input = self.prompt_entry.get(); the entry is cleared, the input logged
HprGetInput ==
    /\ gui.pc = "idle"
    /\ \E v \in UserInputs : gui' = [pc |-> "hpr_if", user_input |-> v, seen |-> NoPrompt]
    /\ UNCHANGED <<appVars, strategyVars, trade_engine, bridgeVars, engine, delivered, returned>>

\* a respond that sets the ready flag although it found no prompt pending
HprNoPendingSets ==
    /\ prompt_response_ready' = TRUE
    /\ UNCHANGED <<pending_prompt, prompt_response_value>>

\* `if self.pending_prompt:` has no else branch: with no prompt pending the
\* handler leaves the bridge alone
HprNoPending ==
    /\ UNCHANGED bridgeVars

\*   if self.pending_prompt:
HprIf ==
    /\ gui.pc = "hpr_if"
    /\ IF pending_prompt # NoPrompt
       THEN /\ gui' = [gui EXCEPT !.pc = "hpr_value", !.seen = pending_prompt]
            /\ UNCHANGED bridgeVars
       ELSE /\ gui' = [gui EXCEPT !.pc = "hpr_skip"]
            /\ HprNoPending
    /\ UNCHANGED <<appVars, strategyVars, trade_engine, engine, delivered, returned>>

\*       self.prompt_response_value = user_input
HprSetValue ==
    /\ gui.pc = "hpr_value"
    /\ prompt_response_value' = gui.user_input
    /\ delivered' = Put(delivered, gui.seen, gui.user_input)
    /\ gui' = [gui EXCEPT !.pc = "hpr_set"]
    /\ UNCHANGED <<appVars, strategyVars, trade_engine, pending_prompt, prompt_response_ready,
                   engine, returned>>

\*       self.prompt_response_ready.set()
HprSetReady ==
    /\ gui.pc = "hpr_set"
    /\ prompt_response_ready' = TRUE
    /\ gui' = [gui EXCEPT !.pc = "hpr_pending"]
    /\ UNCHANGED <<appVars, strategyVars, trade_engine, pending_prompt, prompt_response_value,
                   engine, delivered, returned>>

\*       self.pending_prompt = None      (and the handler returns)
HprClearPending ==
    /\ gui.pc = "hpr_pending"
    /\ pending_prompt' = NoPrompt
    /\ gui' = [pc |-> "idle", user_input |-> None, seen |-> NoPrompt]
    /\ UNCHANGED <<appVars, strategyVars, trade_engine, prompt_response_value, prompt_response_ready,
                   engine, delivered, returned>>

\* the handler returns without having touched the bridge
HprSkip ==
    /\ gui.pc = "hpr_skip"
    /\ gui' = [pc |-> "idle", user_input |-> None, seen |-> NoPrompt]
    /\ UNCHANGED <<appVars, strategyVars, trade_engine, bridgeVars, engine, delivered, returned>>

\* ------------------------------------------------------------------ Next
Next ==
    \/ InitializeEngine
    \/ \E e \in Engines : EngineExit(e)
    \/ \E e \in Engines : GspSetPending(e)
    \/ \E e \in Engines : GspResetValue(e)
    \/ \E e \in Engines : GspClearReady(e)
    \/ \E e \in Engines : GspWait(e)
    \/ \E e \in Engines : GspReturn(e)
    \/ HprGetInput
    \/ HprIf
    \/ HprSetValue
    \/ HprSetReady
    \/ HprClearPending
    \/ HprSkip

Spec == Init /\ [][Next]_vars


\* ----------------------------------------------------------- the strategy
\* SentimentTrading.__init__ with the kwargs handle_submit passes
\* (max_trades = int(max_positions / len(symbols_list)) for every symbol)
MaxTradesAtLeastOne(tk, mp) ==
    [s \in {tk[i][1] : i \in 1..Len(tk)} |->
        IF mp \div Len(tk) < 1 THEN 1 ELSE mp \div Len(tk)]
MaxTradesFor(tk, mp) == [s \in {tk[i][1] : i \in 1..Len(tk)} |-> mp \div Len(tk)]

EvalInit ==
    /\ GuiInit
    /\ tickers \in TickerMaps
    /\ threshold = 20
    /\ ext_th = 500
    /\ max_positions \in MaxPositionsChoices
    /\ max_trades = MaxTradesFor(tickers, max_positions)
    /\ positions = EmptyBag
    /\ NoCycle

\* ------------------------------------------------------------ the ledger
Position(s, t, m, p) == [symbol |-> s, type |-> t, magic |-> m, price_open |-> p]
\* positions the execution side or a manual trade may open
NewPositions ==
    {Position(s, t, ID, p) : s \in Symbols, t \in {0, 1}, p \in OpenPrices}
        \cup {Position("AAA", 0, 0, 100)}

\* min() and max() of a non-empty list of prices
Min(prices) == CHOOSE x \in BagToSet(prices) : \A y \in BagToSet(prices) : x <= y
Max(prices) == CHOOSE x \in BagToSet(prices) : \A y \in BagToSet(prices) : x >= y

\* get_positions_prices(symbol, self.ID, position): the entry prices of this
\* strategy's open positions of one side on one symbol
GetPositionsPrices(symbol, position) ==
    LET mine == {q \in BagToSet(positions) :
                    q.symbol = symbol /\ q.type = position /\ q.magic = ID}
    IN [pr \in {q.price_open : q \in mine} |->
            positions[Position(symbol, position, ID, pr)]]

\* calculate_pct_change(current, reference), in hundredths of a percent
CalculatePctChange(current_price, lh_price) ==
    ((current_price - lh_price) * 10000) \div lh_price

\* _ismax_postions counting the positions of every tag
IsMaxPositionsAnyTag ==
    BagCardinality(positions) >= max_positions

\* _ismax_postions with > for >=
IsMaxPositionsStrict ==
    LET mine == {p \in BagToSet(positions) : p.magic = ID}
    IN BagCardinality([p \in mine |-> positions[p]]) > max_positions

\* _ismax_postions
IsMaxPositions ==
    LET mine == {p \in BagToSet(positions) : p.magic = ID}
    IN BagCardinality([p \in mine |-> positions[p]]) >= max_positions

\* _get_mt5_equivalent: list(values).index(ticker) raises ValueError when the
\* ticker is not a value of self.tickers
Mapped(ticker) == \E i \in 1..Len(tickers) : tickers[i][2] = ticker
GetMt5Equivalent(ticker) ==
    LET i == CHOOSE k \in 1..Len(tickers) :
                 /\ tickers[k][2] = ticker
                 /\ \A j \in 1..(k - 1) : tickers[j][2] # ticker
    IN tickers[i][1]

\* self.exit_positions(position, prices, symbol, th=self.ext_th): decided by
\* the base class from the prices and the tick; ex holds its answers
ExitPositions(position, prices, symbol, ex) ==
    IF BagCardinality(prices) = 0 THEN FALSE ELSE ex[<<symbol, position>>]

TradeSignal(symbol, action) == [id |-> ID, symbol |-> symbol, action |-> action]

\* exit signals emitted only for a side with open positions
ExitSignalsIfOpen(symbol, score, ex) ==
    LET buys == GetPositionsPrices(symbol, 0)
        sells == GetPositionsPrices(symbol, 1)
    IN IF BagCardinality(buys) > 0
          /\ (ExitPositions(0, buys, symbol, ex) \/ score * 2 <= -threshold)
       THEN <<TradeSignal(symbol, "EXIT_LONG")>>
       ELSE IF BagCardinality(sells) > 0
               /\ (ExitPositions(1, sells, symbol, ex) \/ score >= threshold)
            THEN <<TradeSignal(symbol, "EXIT_SHORT")>>
            ELSE <<>>

\* lines 147-167: at most one exit signal per symbol, EXIT_LONG first
ExitSignals(symbol, score, ex) ==
    LET buys == GetPositionsPrices(symbol, 0)
        sells == GetPositionsPrices(symbol, 1)
    IN IF ExitPositions(0, buys, symbol, ex) \/ score * 2 <= -threshold
       THEN <<TradeSignal(symbol, "EXIT_LONG")>>
       ELSE IF ExitPositions(1, sells, symbol, ex) \/ score >= threshold
            THEN <<TradeSignal(symbol, "EXIT_SHORT")>>
            ELSE <<>>

\* lines 169-191
LongSignals(symbol, score, ask) ==
    LET buys == GetPositionsPrices(symbol, 0)
    IN IF score >= threshold /\ ~IsMaxPositions
       THEN IF BagCardinality(buys) = 0
            THEN <<TradeSignal(symbol, "LONG")>>
            ELSE IF BagCardinality(buys) \in 1..max_trades[symbol]
                 THEN IF CalculatePctChange(ask[symbol], Min(buys)) * 2 <= -ext_th
                      THEN <<TradeSignal(symbol, "LONG")>>
                      ELSE <<>>
                 ELSE <<>>
       ELSE <<>>

\* lines 193-214.  With an open short, `self.max_trades + 1` (line 203) adds
\* 1 to the dict max_trades: TypeError.
ShortRaises(symbol, score) ==
    /\ score * 2 <= -threshold
    /\ ~IsMaxPositions
    /\ BagCardinality(GetPositionsPrices(symbol, 1)) # 0
ShortSignals(symbol, score) ==
    IF score * 2 <= -threshold /\ ~IsMaxPositions
          /\ BagCardinality(GetPositionsPrices(symbol, 1)) = 0
    THEN <<TradeSignal(symbol, "SHORT")>>
    ELSE <<>>

\* the body of the loop with the entry blocks before the exit block
ItemSignalsEntriesFirst(symbol, score, ask, ex) ==
    LongSignals(symbol, score, ask) \o ShortSignals(symbol, score)
        \o ExitSignals(symbol, score, ex)
\* the body of the loop for one item (lines 147-214): the exit block, then
\* the long entry block, then the short entry block append to `signals`
ItemSignals(symbol, score, ask, ex) ==
    ExitSignals(symbol, score, ex) \o LongSignals(symbol, score, ask)
        \o ShortSignals(symbol, score)

\* the loop `for ticker, score in sentiments.items()` from item i on, with
\* the signals appended so far; the result is the returned list, or the
\* exception that left the function
RECURSIVE LiveSignalsFrom(_, _, _, _, _)
LiveSignalsFrom(i, snap, acc, ask, ex) ==
    IF i > Len(snap) THEN [raised |-> "none", signals |-> acc]
    ELSE LET ticker == snap[i][1]
             score == snap[i][2]
         IN IF ~Mapped(ticker) THEN [raised |-> "ValueError", signals |-> <<>>]
            ELSE LET symbol == GetMt5Equivalent(ticker)
                 IN IF ShortRaises(symbol, score)
                    THEN [raised |-> "TypeError", signals |-> <<>>]
                    ELSE LiveSignalsFrom(i + 1, snap,
                             acc \o ItemSignals(symbol, score, ask, ex),
                             ask, ex)

\* snapshots the analyser may return: a dict, so no ticker twice
Items == TickerNames \X Scores
Snapshots ==
    {<<>>} \cup {<<it>> : it \in Items}
           \cup {sn \in {<<it, jt>> : it \in Items, jt \in Items} : sn[1][1] # sn[2][1]}

HasPrices(symbol, position) == BagCardinality(GetPositionsPrices(symbol, position)) > 0
\* ticks: the ask is read (line 180) only for a symbol with open longs
Ticks == {a \in [Symbols -> AskPrices] :
            \A s \in Symbols : ~HasPrices(s, 0) => a[s] = IdleTick[s]}
\* ticks in which the price may also have risen above the entry price of a
\* symbol with open shorts
WideTicks == {a \in [Symbols -> BidAskPrices] :
                \A s \in Symbols :
                    ((a[s] < IdleTick[s]) => HasPrices(s, 0))
                        /\ ((a[s] > IdleTick[s]) => HasPrices(s, 1))}
\* answers of exit_positions: consulted only for a side with open positions
ExitAnswers == {x \in [Symbols \X {0, 1} -> BOOLEAN] :
                  \A k \in Symbols \X {0, 1} : x[k] => HasPrices(k[1], k[2])}

\* between two cycles the execution side or the user opens a position
PositionOpened ==
    /\ cycle = "idle"
    /\ BagCardinality(positions) < MaxLedger
    /\ \E p \in NewPositions : positions' = positions (+) SetToBag({p})
    /\ UNCHANGED <<guiVars, appVars, configVars, cycleVars>>

\* between two cycles the execution side or the user closes a position
PositionClosed ==
    /\ cycle = "idle"
    /\ \E p \in BagToSet(positions) : positions' = positions (-) SetToBag({p})
    /\ UNCHANGED <<guiVars, appVars, configVars, cycleVars>>

\* the caller has taken the result of the call (the list or the exception)
CycleDone ==
    /\ cycle # "idle"
    /\ cycle' = "idle"
    /\ sentiments' = <<>>
    /\ signals' = <<>>
    /\ tick' = IdleTick
    /\ exits' = [k \in Symbols \X {0, 1} |-> FALSE]
    /\ source' = "ok"
    /\ after_finish' = FALSE
    /\ UNCHANGED <<guiVars, appVars, configVars, positions>>

\* the except branch of lines 135-139 lets the exception leave the call
AnalyserFailureRaises == [raised |-> "Exception", signals |-> <<>>]
\* lines 135-139: any exception of the analyser is logged, shown in a
\* message box, and the call returns the still empty list `signals`
AnalyserFailure == [raised |-> "none", signals |-> <<>>]

\* one call of _calculate_live_signals in which the analyser raised; no
\* snapshot is assigned, no position, tick or exit rule is consulted
NoSentimentsCycle(lates) ==
    \E late \in lates :
        /\ cycle = "idle"
        /\ LET r == AnalyserFailure
           IN /\ cycle' = IF r.raised = "none" THEN "returned" ELSE r.raised
              /\ signals' = r.signals
        /\ source' = "failed"
        /\ after_finish' = late
        /\ UNCHANGED <<guiVars, appVars, configVars, positions, sentiments, tick, exits>>

\* one call of _calculate_live_signals in which the analyser answered; the
\* function reads no clock and no finishing_time, so the time of the call
\* (late) takes no part in the result
LiveSignalsCycle(ticks, lates) ==
    \E snap \in Snapshots, ask \in ticks, ex \in ExitAnswers, late \in lates :
        /\ cycle = "idle"
        /\ source' = "ok"
        /\ after_finish' = late
        /\ LET r == LiveSignalsFrom(1, snap, <<>>, ask, ex)
           IN /\ cycle' = IF r.raised = "none" THEN "returned" ELSE r.raised
              /\ signals' = r.signals
        /\ sentiments' = snap
        /\ tick' = ask
        /\ exits' = ex
        /\ UNCHANGED <<guiVars, appVars, configVars, positions>>

\* the calls made inside the trading window
CalculateLiveSignals == LiveSignalsCycle(Ticks, {FALSE})
CalculateLiveSignalsNoSentiments == NoSentimentsCycle({FALSE})

EvalNext ==
    \/ PositionOpened
    \/ PositionClosed
    \/ CalculateLiveSignals
    \/ CalculateLiveSignalsNoSentiments
    \/ CycleDone

EvalSpec == EvalInit /\ [][EvalNext]_vars

\* the strategy of one symbol, called at any time of the day (before or
\* after finishing_time) and at any price of its open sides
AnyTimeInit ==
    /\ GuiInit
    /\ tickers = <<<<"AAA", "AAPL">>>>
    /\ threshold = 20
    /\ ext_th = 500
    /\ max_positions \in MaxPositionsChoices \ {3}
    /\ max_trades = MaxTradesFor(tickers, max_positions)
    /\ positions = EmptyBag
    /\ NoCycle

CalculateLiveSignalsAnyTime == LiveSignalsCycle(WideTicks, BOOLEAN)
CalculateLiveSignalsNoSentimentsAnyTime == NoSentimentsCycle(BOOLEAN)

AnyTimeNext ==
    \/ PositionOpened
    \/ PositionClosed
    \/ CalculateLiveSignalsAnyTime
    \/ CalculateLiveSignalsNoSentimentsAnyTime
    \/ CycleDone

AnyTimeSpec == AnyTimeInit /\ [][AnyTimeNext]_vars

\* ------------------------------------------------- cycles that are filled
\* the positions the execution side opens for the entry signals of the list
\* from signal i on: one position per LONG or SHORT, at the symbol's price
RECURSIVE Fills(_)
Fills(i) ==
    IF i > Len(signals) THEN EmptyBag
    ELSE IF signals[i].action \in {"LONG", "SHORT"}
         THEN SetToBag({Position(signals[i].symbol,
                                 IF signals[i].action = "LONG" THEN 0 ELSE 1,
                                 ID, tick[signals[i].symbol])})
                  (+) Fills(i + 1)
         ELSE Fills(i + 1)

\* the caller has taken the result of the call and every entry signal of
\* the returned list was filled as one new position
CycleFilled ==
    /\ cycle # "idle"
    /\ BagCardinality(positions (+) Fills(1)) <= MaxLedger
    /\ positions' = positions (+) Fills(1)
    /\ cycle' = "idle"
    /\ sentiments' = <<>>
    /\ signals' = <<>>
    /\ tick' = IdleTick
    /\ exits' = [k \in Symbols \X {0, 1} |-> FALSE]
    /\ source' = "ok"
    /\ after_finish' = FALSE
    /\ UNCHANGED <<guiVars, appVars, configVars>>

\* the ledger of a strategy whose positions are opened only by the fills of
\* its own entry signals
FillNext ==
    \/ CalculateLiveSignals
    \/ CalculateLiveSignalsNoSentiments
    \/ CycleFilled
    \/ PositionClosed

FillSpec == EvalInit /\ [][FillNext]_vars

\* --------------------------------------------- the form and the chart
\* texts the user may type in the entries handle_submit reads
TickerTexts == {"AAA", "AAA:AAPL", "AAA:AAPL,BBB:MSFT"}
ThresholdTexts == {"", "abc", "-1", "0.2"}
MaxPositionsTexts == {"x", "1", "3"}
LoginTexts == {"", "7"}
TimeFrameTexts == {"", "D1"}

\* what validate_input returns: the converted value, or None (it returns
\* nothing after the message box of its except branch)
Value(v) == [none |-> FALSE, value |-> v]
NoValue == [none |-> TRUE, value |-> 0]
\* validate_input(text, float, ...), the number in hundredths
ValidateFloat(text) ==
    CASE text = "0.2" -> Value(20)
      [] text = "-1" -> Value(-100)
      [] OTHER -> NoValue
\* validate_input(text, int, ...)
ValidateInt(text) ==
    CASE text = "1" -> Value(1)
      [] text = "3" -> Value(3)
      [] text = "7" -> Value(7)
      [] OTHER -> NoValue
\* the threshold entry as get_inputs and update_charts read it
ThresholdOf(text) == IF text = "" THEN Value(20) ELSE ValidateFloat(text)
\* the max positions entry as get_inputs reads it
MaxPositionsOf(text) == IF text = "" THEN Value(100) ELSE ValidateInt(text)
\* inputs.get_tickers: dict(item.split(":") for item in string.split(","))
\* raises ValueError for an item that does not split in two
GetTickers(text) ==
    CASE text = "AAA:AAPL" -> [raised |-> FALSE, value |-> <<<<"AAA", "AAPL">>>>]
      [] text = "AAA:AAPL,BBB:MSFT" ->
            [raised |-> FALSE, value |-> <<<<"AAA", "AAPL">>, <<"BBB", "MSFT">>>>]
      [] OTHER -> [raised |-> TRUE, value |-> <<>>]

\* the snapshots strategy.sentiments may hold; the last two are the same
\* dict built in two insertion orders
ChartSnapshots ==
    { <<>>,
      <<<<"AAPL", 5>>>>,
      <<<<"AAPL", -30>>, <<"MSFT", 25>>>>,
      <<<<"MSFT", 25>>, <<"AAPL", -30>>>> }

\* == of two dicts: the same items, in whatever order they were inserted
DictEq(a, b) == {a[i] : i \in DOMAIN a} = {b[i] : i \in DOMAIN b}
Abs(x) == IF x < 0 THEN -x ELSE x
\* sorted(items, key=score, reverse=True): stable, highest score first
RECURSIVE SortedByScore(_)
SortedByScore(items) ==
    IF Len(items) <= 1 THEN items
    ELSE LET rest == SortedByScore(Tail(items))
             before == SelectSeq(rest, LAMBDA it : it[2] > Head(items)[2])
             after == SelectSeq(rest, LAMBDA it : it[2] <= Head(items)[2])
         IN before \o <<Head(items)>> \o after
\* lines 840-847: the bars drawn for a snapshot at a threshold
BarsOf(snap, th) == SortedByScore(SelectSeq(snap, LAMBDA it : Abs(it[2]) * 2 >= th))

\* update_charts(sentiment_dict): what it leaves in _last_sentiments and on
\* the canvas, and how it ends.  With an unparsable threshold text
\* validate_input returns None and `threshold / 2` (line 841) raises
\* TypeError for the first item of a non-empty snapshot, after line 829
\* stored the snapshot and line 831 destroyed the old canvas.
UpdateCharts(snap) ==
    IF ~window \/ DictEq(snap, last_sentiments)
    THEN [last |-> last_sentiments, chart |-> chart, result |-> "skipped"]
    ELSE LET th == ThresholdOf(threshold_text)
         IN IF th.none /\ snap # <<>>
            THEN [last |-> snap,
                  chart |-> IF chart.state = "none" THEN chart
                            ELSE [state |-> "destroyed", bars |-> <<>>],
                  result |-> "TypeError"]
            ELSE [last |-> snap,
                  chart |-> [state |-> "drawn",
                             bars |-> IF snap = <<>> THEN <<>> ELSE BarsOf(snap, th.value)],
                  result |-> "drawn"]

\* the id root.after gives a new job: one it has not given before (here one
\* that is neither scheduled nor still referred to)
FreeJobs(pending) == {j \in JobIds : j \notin pending \cup {chart_update_job}}
NewJob(pending) == CHOOSE j \in FreeJobs(pending) : \A k \in FreeJobs(pending) : j <= k

\* start_chart_update_loop that schedules without cancelling the previous job
StartChartUpdateLoopNoCancel(snap, pending) ==
    IF ~window
    THEN /\ scheduled' = pending
         /\ UNCHANGED <<last_sentiments, chart, publish, chart_update_job>>
    ELSE LET r == UpdateCharts(snap)
         IN /\ last_sentiments' = r.last
            /\ chart' = r.chart
            /\ publish' = [n |-> 1 - publish.n, arg |-> snap, result |-> r.result]
            /\ IF r.result = "TypeError"
               THEN /\ scheduled' = pending
                    /\ UNCHANGED chart_update_job
               ELSE /\ FreeJobs(pending) # {}
                    /\ chart_update_job' = NewJob(pending)
                    /\ scheduled' = pending \cup {NewJob(pending)}
\* start_chart_update_loop called with this snapshot from get_sentiments,
\* pending being the jobs scheduled at the call: update_charts, then (unless
\* it raised) after_cancel of the job _chart_update_job refers to, whose
\* error for a job that has run is swallowed, and root.after of a new job
StartChartUpdateLoop(snap, pending) ==
    IF ~window
    THEN /\ scheduled' = pending
         /\ UNCHANGED <<last_sentiments, chart, publish, chart_update_job>>
    ELSE LET r == UpdateCharts(snap)
         IN /\ last_sentiments' = r.last
            /\ chart' = r.chart
            /\ publish' = [n |-> 1 - publish.n, arg |-> snap, result |-> r.result]
            /\ IF r.result = "TypeError"
               THEN /\ scheduled' = pending
                    /\ UNCHANGED chart_update_job
               ELSE /\ FreeJobs(pending) # {}
                    /\ chart_update_job' = NewJob(pending)
                    /\ scheduled' = (pending \ {chart_update_job}) \cup {NewJob(pending)}

\* the user types in the threshold entry
SetThreshold ==
    /\ window
    /\ \E t \in ThresholdTexts : threshold_text' = t
    /\ UNCHANGED <<guiVars, strategyVars, window, chart_update_job, scheduled,
                   last_sentiments, chart, publish, submit>>

\* handle_submit: get_inputs, the checks of lines 682-720, the kwargs, and
\* for a form that passes them initialize_engine and start_chart_update_loop.
\* The password, server, path, period and symbols type are held valid; the
\* start, finishing and ending times are forwarded unread (lines 746-748).
HandleSubmit ==
    \E tt \in TickerTexts, mt \in MaxPositionsTexts, lt \in LoginTexts,
       ft \in TimeFrameTexts :
        /\ window
        /\ gui.pc = "idle"
        /\ LET tk == GetTickers(tt)
               login == ValidateInt(lt)
               th == ThresholdOf(threshold_text)
               mp == MaxPositionsOf(mt)
           IN IF tk.raised
              THEN /\ submit' = "ValueError"
                   /\ UNCHANGED <<guiVars, strategyVars, window, threshold_text,
                                  chart_update_job, scheduled, last_sentiments, chart,
                                  publish>>
              ELSE IF login.none \/ ft = ""
              THEN /\ submit' = "refused"
                   /\ UNCHANGED <<guiVars, strategyVars, window, threshold_text,
                                  chart_update_job, scheduled, last_sentiments, chart,
                                  publish>>
              ELSE IF mp.none
              THEN /\ submit' = "TypeError"
                   /\ UNCHANGED <<guiVars, strategyVars, window, threshold_text,
                                  chart_update_job, scheduled, last_sentiments, chart,
                                  publish>>
              ELSE /\ Cardinality(Created) < MaxEngines
                   /\ submit' = "started"
                   /\ LET e == Cardinality(Created) + 1
                      IN /\ engine' = [EngineStop(engine, trade_engine) EXCEPT
                                          ![e] = [pc |-> "loop", running |-> TRUE, n |-> 0]]
                         /\ trade_engine' = e
                   /\ tickers' = tk.value
                   /\ threshold' = th
                   /\ max_positions' = mp.value
                   /\ max_trades' = MaxTradesFor(tk.value, mp.value)
                   /\ sentiments' = <<>>
                   /\ StartChartUpdateLoop(<<>>, scheduled)
                   /\ UNCHANGED <<bridgeVars, gui, delivered, returned, ext_th, positions,
                                  cycle, signals, tick, exits, source, after_finish,
                                  window, threshold_text>>

\* get_sentiments: {} without an engine, else the strategy's snapshot
GetSentiments == IF trade_engine = 0 THEN <<>> ELSE sentiments

\* a scheduled job comes due: root.after drops it and runs
\* start_chart_update_loop
ChartUpdateJob ==
    /\ window
    /\ gui.pc = "idle"
    /\ \E j \in scheduled : StartChartUpdateLoop(GetSentiments, scheduled \ {j})
    /\ UNCHANGED <<guiVars, strategyVars, window, threshold_text, submit>>

\* a cycle of the current engine's strategy stores a new snapshot (line 140)
SentimentsStored ==
    /\ trade_engine # 0
    /\ engine[trade_engine].pc = "loop"
    /\ engine[trade_engine].running
    /\ \E snap \in ChartSnapshots : sentiments' = snap
    /\ UNCHANGED <<guiVars, appVars, configVars, positions, cycle, signals, tick,
                   exits, source, after_finish>>

\* on_close: cancel the job, stop the engine, destroy the window
OnClose ==
    /\ window
    /\ gui.pc = "idle"
    /\ scheduled' = scheduled \ {chart_update_job}
    /\ chart_update_job' = 0
    /\ engine' = EngineStop(engine, trade_engine)
    /\ window' = FALSE
    /\ UNCHANGED <<strategyVars, trade_engine, bridgeVars, gui, delivered, returned,
                   threshold_text, last_sentiments, chart, publish, submit>>

\* the application before any submit: no strategy exists yet; the
\* threshold a submit hands to the strategy is what validate_input returned
AppInit ==
    /\ GuiInit
    /\ tickers = <<>>
    /\ threshold = Value(20)
    /\ ext_th = 500
    /\ max_positions = 0
    /\ max_trades = <<>>
    /\ positions = EmptyBag
    /\ NoCycle

AppNext ==
    \/ SetThreshold
    \/ HandleSubmit
    \/ ChartUpdateJob
    \/ SentimentsStored
    \/ OnClose
    \/ \E e \in Engines : EngineExit(e)

AppSpec == AppInit /\ [][AppNext]_vars

\* --------------------------------------- strategies the form can start
\* the configurations with which handle_submit reaches initialize_engine
\* and whose threshold is a number: the parsed tickers, threshold and max
\* positions of a form that passes its checks
StartedInit ==
    /\ GuiInit
    /\ \E tt \in TickerTexts, xt \in ThresholdTexts, mt \in MaxPositionsTexts :
          /\ ~GetTickers(tt).raised
          /\ ~ThresholdOf(xt).none
          /\ ~MaxPositionsOf(mt).none
          /\ tickers = GetTickers(tt).value
          /\ threshold = ThresholdOf(xt).value
          /\ max_positions = MaxPositionsOf(mt).value
          /\ max_trades = MaxTradesFor(tickers, max_positions)
    /\ ext_th = 500
    /\ positions = EmptyBag
    /\ NoCycle

StartedSpec == StartedInit /\ [][EvalNext]_vars

\* ---------------------------------------------------- confirmation bridge
\* C1: a request returns only after a respond that saw its pending prompt
\* has stored a value, and it returns exactly that value.
RequestReturnsItsResponse ==
    \A q \in DOMAIN returned :
        /\ q \in DOMAIN delivered
        /\ returned[q] = delivered[q]

\* a response stored for a request that has not returned yet is still in the slot
NoLostUpdate ==
    \A q \in (DOMAIN delivered) \ (DOMAIN returned) :
        prompt_response_value = delivered[q]
\* a value a request returned is the one stored for that request
NoMisattribution ==
    \A q \in DOMAIN returned :
        returned[q] # None => (q \in DOMAIN delivered /\ returned[q] = delivered[q])
\* C2: no response is overwritten before the request it was given to has
\* consumed it (lost update), and no request consumes a response that was
\* given to another request (misattribution, double consume).
NoLostUpdateNoMisattribution == NoLostUpdate /\ NoMisattribution

\* C3: at most one prompt is in flight: no two requests are inside
\* gui_safe_prompt at the same time.
SinglePromptInFlight == Cardinality(InPrompt) <= 1

\* the steps of a respond that found no prompt pending
StrayStep ==
    \/ gui.pc = "hpr_if" /\ gui'.pc = "hpr_skip"
    \/ gui.pc = "hpr_skip" /\ gui'.pc = "idle"
\* C4: a respond that finds no prompt pending leaves the response value, the
\* ready flag and the pending prompt unchanged, and the ready flag is only
\* ever set by a respond that saw a pending prompt, so a stray respond
\* completes no request.
StrayRespondIsNoOp ==
    [][ /\ StrayStep => UNCHANGED bridgeVars
        /\ (prompt_response_ready' /\ ~prompt_response_ready)
              => (gui.pc = "hpr_set" /\ gui.seen # NoPrompt) ]_vars
\* a respond found nothing pending, and a request made since is still waiting
StrayRespondThenRequestWaits ==
    /\ gui.pc = "hpr_skip"
    /\ \E e \in Engines : engine[e].pc = "gsp_wait"
    /\ ~prompt_response_ready

\* C5: after any sequence of starts, at most one engine run loop is executing.
NoConcurrentRunLoops == Cardinality(Executing) <= 1

\* C17: the bridge never reaches a state in which a requester is blocked in
\* wait() with the ready flag clear while no prompt is pending and no respond
\* that saw a prompt is still on its way to set the flag (every later respond
\* would then be ignored and the requester never returns).
NoLostWakeup ==
    ~(/\ \E e \in Engines : engine[e].pc = "gsp_wait"
      /\ ~prompt_response_ready
      /\ pending_prompt = NoPrompt
      /\ gui.pc \notin {"hpr_value", "hpr_set"})

\* ------------------------------------------------------ signal evaluator
\* number of open positions tagged with this strategy's ID
OwnCount ==
    LET own == {p \in BagToSet(positions) : p.magic = ID}
    IN BagCardinality([p \in own |-> positions[p]])
\* number of signals with this action for this symbol in the returned list
CountSignals(symbol, action) ==
    Cardinality({k \in 1..Len(signals) :
                    signals[k].symbol = symbol /\ signals[k].action = action})
\* the snapshot items of the cycle, and those whose ticker is in the mapping
CycleItems == 1..Len(sentiments)
MappedItems == {i \in CycleItems : Mapped(sentiments[i][1])}
SymbolOf(i) == GetMt5Equivalent(sentiments[i][1])
ScoreOf(i) == sentiments[i][2]
AllMapped == MappedItems = CycleItems

\* C6: in a cycle run with the strategy's open positions at or above
\* max_positions, the returned list holds no LONG and no SHORT signal, only
\* EXIT_LONG / EXIT_SHORT.
NoEntryAtCapacity ==
    (cycle = "returned" /\ OwnCount >= max_positions)
        => \A k \in 1..Len(signals) : signals[k].action \in {"EXIT_LONG", "EXIT_SHORT"}
\* a cycle at capacity in which a score qualifies for entry and an exit is emitted
AtCapacityScoreQualifies ==
    /\ cycle = "returned"
    /\ OwnCount >= max_positions
    /\ \E i \in MappedItems : ScoreOf(i) >= threshold
    /\ signals # <<>>

\* C7: in a cycle over a snapshot whose tickers are all mapped, every symbol
\* with an open long whose move from the lowest long entry to the ask is
\* <= -ext_th/2, or whose score is <= -threshold/2, gets EXIT_LONG in the
\* returned list, at capacity or not.
ExitLongWhenDue ==
    (cycle # "idle" /\ AllMapped) =>
        \A i \in CycleItems :
            LET buys == GetPositionsPrices(SymbolOf(i), 0)
            IN (/\ BagCardinality(buys) > 0
                /\ \/ CalculatePctChange(tick[SymbolOf(i)], Min(buys)) * 2 <= -ext_th
                   \/ ScoreOf(i) * 2 <= -threshold)
               => (cycle = "returned" /\ CountSignals(SymbolOf(i), "EXIT_LONG") >= 1)

\* C8: in a cycle over a snapshot whose tickers are all mapped, every symbol
\* with score >= threshold, no open long and capacity left gets exactly one
\* LONG in the returned list.
LongEntryExactlyOnce ==
    (cycle # "idle" /\ AllMapped) =>
        \A i \in CycleItems :
            (/\ ScoreOf(i) >= threshold
             /\ OwnCount < max_positions
             /\ BagCardinality(GetPositionsPrices(SymbolOf(i), 0)) = 0)
            => (cycle = "returned" /\ CountSignals(SymbolOf(i), "LONG") = 1)

\* threshold 0.2, max_positions 2, the single symbol AAA -> AAPL, no open
\* positions, snapshot {AAPL: v}
Scenario(v) ==
    /\ cycle # "idle"
    /\ tickers = <<<<"AAA", "AAPL">>>>
    /\ threshold = 20
    /\ max_positions = 2
    /\ positions = EmptyBag
    /\ sentiments = <<<<"AAPL", v>>>>
\* C9 as stated: 0.25 returns exactly [LONG(AAA)], -0.3 exactly [SHORT(AAA)].
ScenarioEntryOnly ==
    /\ Scenario(25) => (cycle = "returned" /\ signals = <<TradeSignal("AAA", "LONG")>>)
    /\ Scenario(-30) => (cycle = "returned" /\ signals = <<TradeSignal("AAA", "SHORT")>>)
\* C9 amended: 0.25 returns [EXIT_SHORT(AAA), LONG(AAA)] and -0.3 returns
\* [EXIT_LONG(AAA), SHORT(AAA)]: the exit of the opposite side is emitted on
\* the score alone, whether or not a position is open.
ScenarioExitThenEntry ==
    /\ Scenario(25) =>
         (/\ cycle = "returned"
          /\ signals = <<TradeSignal("AAA", "EXIT_SHORT"), TradeSignal("AAA", "LONG")>>)
    /\ Scenario(-30) =>
         (/\ cycle = "returned"
          /\ signals = <<TradeSignal("AAA", "EXIT_LONG"), TradeSignal("AAA", "SHORT")>>)
\* the scenario's cycle with score 0.25 has returned
ScenarioPositiveScoreRun == Scenario(25) /\ cycle = "returned"

\* C10: a snapshot ticker without an entry in the mapping is skipped: no
\* exception leaves the evaluator because of it, and the list returned is
\* the one the other items of the snapshot produce.
UnmappedTickerSkipped ==
    (cycle # "idle" /\ ~AllMapped) =>
        LET rest == SelectSeq(sentiments, LAMBDA it : Mapped(it[1]))
            r == LiveSignalsFrom(1, rest, <<>>, tick, exits)
        IN /\ cycle # "ValueError"
           /\ r.raised = "none" => (cycle = "returned" /\ signals = r.signals)

\* C11: a cycle in which the sentiment source raised returns the empty list
\* and raises nothing, so the caller's loop goes on to its next tick.
SourceFailureReturnsEmpty ==
    (cycle # "idle" /\ source = "failed") => (cycle = "returned" /\ signals = <<>>)
\* the source failed in a cycle run while the strategy holds a position
SourceFailedWithPositions ==
    cycle # "idle" /\ source = "failed" /\ OwnCount > 0

\* C13: a cycle run after finishing_time returns no LONG and no SHORT signal.
NoEntryAfterFinish ==
    (cycle # "idle" /\ after_finish) =>
        \A k \in 1..Len(signals) : signals[k].action \notin {"LONG", "SHORT"}

\* C14: _ismax_postions answers TRUE exactly when the positions tagged with
\* the strategy's ID, summed over all symbols and sides, are >= max_positions;
\* a cycle, which calls it once or twice per item, leaves the ledger and the
\* caps as they were, and the answer with them.
OwnPositionsTotal ==
    BagCardinality(GetPositionsPrices("AAA", 0)) + BagCardinality(GetPositionsPrices("AAA", 1))
        + BagCardinality(GetPositionsPrices("BBB", 0))
        + BagCardinality(GetPositionsPrices("BBB", 1))
CapacityGate ==
    [][ /\ IsMaxPositions <=> (OwnPositionsTotal >= max_positions)
        /\ (cycle = "idle" /\ cycle' # "idle") =>
              /\ positions' = positions
              /\ max_positions' = max_positions
              /\ max_trades' = max_trades
              /\ IsMaxPositions' = IsMaxPositions ]_vars
\* a cycle returned an entry while the ledger, another tag's position
\* included, held max_positions positions or more
ForeignPositionNotCounted ==
    /\ cycle = "returned"
    /\ BagCardinality(positions) >= max_positions
    /\ OwnPositionsTotal < max_positions
    /\ \E k \in 1..Len(signals) : signals[k].action \in {"LONG", "SHORT"}

\* C18: in a cycle over a snapshot whose tickers are all mapped, every symbol
\* with an open short whose move from the highest short entry to the current
\* price is >= +ext_th/2, or whose score is >= threshold, gets EXIT_SHORT in
\* the returned list, whether or not the long exit is due as well.
ExitShortWhenDue ==
    (cycle # "idle" /\ source = "ok" /\ AllMapped) =>
        \A i \in CycleItems :
            LET sells == GetPositionsPrices(SymbolOf(i), 1)
            IN (/\ BagCardinality(sells) > 0
                /\ \/ CalculatePctChange(tick[SymbolOf(i)], Max(sells)) * 2 >= ext_th
                   \/ ScoreOf(i) >= threshold)
               => (cycle = "returned" /\ CountSignals(SymbolOf(i), "EXIT_SHORT") >= 1)

\* C19: in a cycle over a snapshot whose tickers are all mapped, every symbol
\* with score <= -threshold/2 and capacity left gets SHORT in the returned
\* list when it has no open short, and when it has between 1 and
\* max_trades[symbol] open shorts and the move from the highest short entry
\* to its current price is >= +ext_th/2; the call raises nothing.
ShortEntryMirrorsLong ==
    (cycle # "idle" /\ source = "ok" /\ AllMapped) =>
        \A i \in CycleItems :
            LET sells == GetPositionsPrices(SymbolOf(i), 1)
            IN (/\ ScoreOf(i) * 2 <= -threshold
                /\ OwnCount < max_positions
                /\ \/ BagCardinality(sells) = 0
                   \/ /\ BagCardinality(sells) \in 1..max_trades[SymbolOf(i)]
                      /\ CalculatePctChange(tick[SymbolOf(i)], Max(sells)) * 2 >= ext_th)
               => (cycle = "returned" /\ CountSignals(SymbolOf(i), "SHORT") >= 1)

\* C20: in a returned list no entry signal of a symbol comes before an exit
\* signal of that symbol, and the symbols of the signals follow the order of
\* the snapshot's items.
ItemOf(symbol) == CHOOSE i \in CycleItems : SymbolOf(i) = symbol
SignalOrdering ==
    (cycle = "returned" /\ source = "ok") =>
        \A j \in 1..Len(signals) : \A k \in (j + 1)..Len(signals) :
            /\ ItemOf(signals[j].symbol) <= ItemOf(signals[k].symbol)
            /\ (signals[j].symbol = signals[k].symbol
                    /\ signals[j].action \in {"LONG", "SHORT"})
                => signals[k].action \notin {"EXIT_LONG", "EXIT_SHORT"}
\* a snapshot iterated against the order of the mapping (MSFT, then AAPL)
\* returned an exit and an entry for each of its two symbols
TwoSymbolsExitAndEntry ==
    /\ cycle = "returned"
    /\ Len(sentiments) = 2
    /\ sentiments[1][1] = "MSFT"
    /\ Len(signals) = 4
    /\ signals[1].symbol = "BBB"
    /\ signals[3].symbol = "AAA"

\* C12: after a submit that created an engine and started its thread, the
\* threshold handed to the strategy is a number and is positive (a form with
\* an unparsable or non-positive threshold starts nothing).
StartRequiresValidThreshold ==
    submit = "started" => (~threshold.none /\ threshold.value > 0)

\* C15 as stated: the cap of every symbol is floor(max_positions / symbol
\* count) and at least 1, and is 1 when max_positions < symbol count.
PerSymbolCapAtLeastOne ==
    trade_engine # 0 =>
        \A s \in DOMAIN max_trades :
            /\ max_trades[s] * Len(tickers) <= max_positions
            /\ max_positions < (max_trades[s] + 1) * Len(tickers)
            /\ max_trades[s] >= 1
            /\ max_positions < Len(tickers) => max_trades[s] = 1
\* C15 amended: the cap of every symbol is floor(max_positions / symbol
\* count), with no minimum: it is 0 when max_positions < symbol count.
PerSymbolCapIsFloor ==
    trade_engine # 0 =>
        /\ DOMAIN max_trades = {tickers[i][1] : i \in 1..Len(tickers)}
        /\ \A s \in DOMAIN max_trades :
            /\ max_trades[s] * Len(tickers) <= max_positions
            /\ max_positions < (max_trades[s] + 1) * Len(tickers)
            /\ max_positions < Len(tickers) => max_trades[s] = 0
\* a strategy was configured with fewer positions than symbols
FewerPositionsThanSymbols ==
    trade_engine # 0 /\ max_positions >= 1 /\ max_positions < Len(tickers)

\* C16: a call of update_charts with a snapshot equal by value to
\* _last_sentiments leaves _last_sentiments and the chart as they were; with
\* a different snapshot it draws the chart of that snapshot; after the call
\* _last_sentiments equals the snapshot passed in.
PublishContract ==
    [][ publish' # publish =>
          /\ DictEq(publish'.arg, last_sentiments) =>
                UNCHANGED <<last_sentiments, chart>>
          /\ ~DictEq(publish'.arg, last_sentiments) =>
                /\ chart'.state = "drawn"
                /\ last_sentiments' = publish'.arg
          /\ DictEq(last_sentiments', publish'.arg) ]_vars

\* C21: with every entry signal filled as one new position, the open longs
\* and the open shorts of the strategy on a symbol never exceed
\* max_trades[symbol].
SideCount(symbol, position) == BagCardinality(GetPositionsPrices(symbol, position))
PerSymbolCapHolds ==
    \A s \in DOMAIN max_trades : \A side \in {0, 1} :
        SideCount(s, side) <= max_trades[s]

\* C22: with every entry signal filled as one new position, the open
\* positions of the strategy before a cycle plus the LONG and SHORT signals
\* the cycle returned never exceed max_positions.
EntryCount ==
    Cardinality({k \in 1..Len(signals) : signals[k].action \in {"LONG", "SHORT"}})
GlobalCapWithinCycle ==
    cycle = "returned" => OwnCount + EntryCount <= max_positions

\* C23: for every configuration the form can start an engine with, the list
\* a cycle returned never holds both a LONG and a SHORT for one symbol.
NoContradictoryEntries ==
    cycle = "returned" =>
        \A s \in Symbols : ~(CountSignals(s, "LONG") >= 1 /\ CountSignals(s, "SHORT") >= 1)

\* C24: at most one chart-update job is scheduled and _chart_update_job
\* refers to it; once the window is closed no job is scheduled,
\* _chart_update_job is None and the current engine, if any, was told to stop.
ChartJobScheduling ==
    /\ Cardinality(scheduled) <= 1
    /\ scheduled \subseteq {chart_update_job}
    /\ ~window =>
          /\ scheduled = {}
          /\ chart_update_job = 0
          /\ trade_engine # 0 => ~engine[trade_engine].running
\* the window was closed after two submits and a timer firing that
\* published a snapshot of the second engine
ClosedAfterSubmitsAndTimer ==
    /\ ~window
    /\ trade_engine = 2
    /\ last_sentiments # <<>>
====
